---- MODULE Spec2Model ----
(***************************************************************************)
(* Model of dcmio/dcmreader/dcmreader.py: the recursive dataset walker     *)
(* (walk, walker_callback), the field extractors built on it, and the      *)
(* dcmdump based extractor get_number_of_slices_philips.                   *)
(*                                                                         *)
(* Python values are wrapped in records so that None, numbers, strings,    *)
(* lists and DICOM sequences can be compared with each other:              *)
(*   None                      [kind |-> "none"]                           *)
(*   a number n                [kind |-> "int",  num   |-> n]              *)
(*   a float n.0               [kind |-> "float", num  |-> n]              *)
(*   a string                  [kind |-> "str",  str   |-> s]              *)
(*   a pydicom Sequence        [kind |-> "seq",  items |-> <<datasets>>]   *)
(*   a Python list             [kind |-> "list", items |-> <<values>>]     *)
(* A dataset is a function from its tags to its data elements; a data      *)
(* element is [tag, VR, value], with VR = "SQ" iff value is a Sequence.    *)
(***************************************************************************)
EXTENDS Integers, Sequences, FiniteSets, TLC

VARIABLES
    dataset,    \* the parsed tree dicom.read_file returned
    _tag,       \* the target tag last handed to walk
    called,     \* which modes of walk have returned: subset of {"first", "all"}
    out_first,  \* what walk(dataset, walker_callback, _tag) returned
    out_all,    \* what walk(dataset, walker_callback, _tag, stack_values=True) returned
    ret,        \* the last extractor call: [fn, value]
    pc,         \* get_number_of_slices_philips: the statement about to run
    exists,     \* whether temp.txt is on disk
    content,    \* the lines of temp.txt
    buff,       \* the open file object: "closed" or "open"
    temp,       \* the local variable temp: a line, or Unbound
    retval,     \* what get_number_of_slices_philips returned
    warned      \* whether logging.warning was called

vars == <<dataset, _tag, called, out_first, out_all, ret,
          pc, exists, content, buff, temp, retval, warned>>

walkVars == <<dataset, _tag, called, out_first, out_all>>
philipsVars == <<pc, exists, content, buff, temp, retval, warned>>

----------------------------------------------------------------------------
(* Bounds of the model *)

\* the largest tree: fields plus sequence items, over all nesting levels
MaxNodes == 5

----------------------------------------------------------------------------
(* Python values *)

None == [kind |-> "none"]
IntVal(n) == [kind |-> "int", num |-> n]
FloatVal(n) == [kind |-> "float", num |-> n]
StrVal(s) == [kind |-> "str", str |-> s]
SeqVal(s) == [kind |-> "seq", items |-> s]
ListVal(s) == [kind |-> "list", items |-> s]

\* a mutant of Truthy: "if out is not None"
TruthyIsNotNone(v) == v.kind # "none"

\* Python's truth value of v, as "if out:" and "if value:" take it
Truthy(v) ==
    CASE v.kind = "none" -> FALSE
      [] v.kind = "int" -> v.num # 0
      [] v.kind = "float" -> v.num # 0
      [] v.kind = "str" -> v.str # ""
      [] v.kind = "seq" -> Len(v.items) > 0
      [] v.kind = "list" -> Len(v.items) > 0

----------------------------------------------------------------------------
(* Tags: pydicom's Tag is the integer (group << 16) | element, and a       *)
(* (group, element) tuple compares equal to it.                            *)

Tag(group, element) == group * 65536 + element

TagRepetitionTime == Tag(24, 128)        \* (0x0018, 0x0080)
TagPhaseEncoding == Tag(24, 4882)        \* (0x0018, 0x1312)
TagNbSlices == Tag(32, 4098)             \* (0x0020, 0x1002)
TagNbSlicesPhilips == Tag(8193, 4120)    \* (0x2001, 0x1018)

\* the tags the trees of the walker's specification are built from
Tags == {TagRepetitionTime, TagNbSlices, TagNbSlicesPhilips}

\* the tags the trees of the extractors' specification are built from
ExtractTags == Tags \cup {TagPhaseEncoding}

\* leaf values: a falsy one and two truthy ones around the repetition
\* time's threshold
LeafValues == {0, 999, 1000}

----------------------------------------------------------------------------
(* The trees the decoder can hand over: every dataset over a set of tags   *)
(* with exactly n nodes (fields and sequence items).                       *)

MinOf(S) == CHOOSE x \in S : \A y \in S : x <= y

RECURSIVE DatasetsOfSize(_, _, _), SequencesOfSize(_, _), ElementsOfSize(_, _, _)
ElementsOfSize(universe, t, n) ==
    IF n = 1
    THEN {[tag |-> t, VR |-> "DS", value |-> IntVal(v)] : v \in LeafValues}
         \cup {[tag |-> t, VR |-> "SQ", value |-> SeqVal(<<>>)]}
    ELSE {[tag |-> t, VR |-> "SQ", value |-> SeqVal(s)] :
             s \in SequencesOfSize(universe, n - 1)}
SequencesOfSize(universe, n) ==
    IF n = 0 THEN {<<>>}
    ELSE UNION {{<<d>> \o s : d \in DatasetsOfSize(universe, universe, k - 1),
                              s \in SequencesOfSize(universe, n - k)} : k \in 1..n}
DatasetsOfSize(universe, tags, n) ==
    IF tags = {} THEN (IF n = 0 THEN {<<>>} ELSE {})
    ELSE LET t == MinOf(tags)
             rest == tags \ {t}
         IN DatasetsOfSize(universe, rest, n) \cup
            UNION {{(t :> e) @@ d : e \in ElementsOfSize(universe, t, k),
                                    d \in DatasetsOfSize(universe, rest, n - k)} :
                   k \in 1..n}

Trees(universe, max) == UNION {DatasetsOfSize(universe, universe, n) : n \in 0..max}

----------------------------------------------------------------------------
(* walk and walker_callback *)

\* a mutant of sorted: descending order
RECURSIVE sortedDescending(_)
sortedDescending(keys) ==
    IF keys = {} THEN <<>>
    ELSE LET m == CHOOSE x \in keys : \A y \in keys : y <= x
         IN <<m>> \o sortedDescending(keys \ {m})

\* sorted(dataset.keys()): the keys in ascending order
RECURSIVE sorted(_)
sorted(keys) ==
    IF keys = {} THEN <<>>
    ELSE LET m == CHOOSE x \in keys : \A y \in keys : x <= y
         IN <<m>> \o sorted(keys \ {m})

\* a mutant of walker_callback: the tag is not compared
walker_callback_any(data_element, tag) == data_element.value

walker_callback(data_element, tag) ==
    IF data_element.tag = tag THEN data_element.value ELSE None

RECURSIVE walk(_, _, _), walk_fields(_, _, _, _, _, _), walk_items(_, _, _, _, _),
          walk_items_noreturn(_, _, _, _, _)

\* a mutant of walk_items: line 65's return is missing, the loop goes on
walk_items_noreturn(sequence, j, tag, stack_values, out_list) ==
    IF j > Len(sequence) THEN [returned |-> FALSE, out_list |-> out_list]
    ELSE LET out == walk(sequence[j], tag, stack_values)
         IN IF Truthy(out) /\ stack_values
            THEN walk_items_noreturn(sequence, j + 1, tag, stack_values,
                                     out_list \o out.items)
            ELSE walk_items_noreturn(sequence, j + 1, tag, stack_values, out_list)

\* the loop "for sub_dataset in sequence" from its j-th item on: whether
\* walk returned from inside it and with what, else the list so far
walk_items(sequence, j, tag, stack_values, out_list) ==
    IF j > Len(sequence) THEN [returned |-> FALSE, out_list |-> out_list]
    ELSE LET out == walk(sequence[j], tag, stack_values)
         IN IF Truthy(out)
            THEN IF stack_values
                 THEN walk_items(sequence, j + 1, tag, stack_values,
                                 out_list \o out.items)
                 ELSE [returned |-> TRUE, out |-> out]
            ELSE walk_items(sequence, j + 1, tag, stack_values, out_list)

\* the loop "for tag in taglist" from its i-th tag on, and the returns
\* that follow it
walk_fields(ds, taglist, i, tag, stack_values, out_list) ==
    IF i > Len(taglist)
    THEN IF stack_values THEN ListVal(out_list) ELSE None
    ELSE LET key == taglist[i]
             data_element == ds[key]
             out == walker_callback(data_element, tag)
         IN IF Truthy(out)
            THEN IF stack_values
                 THEN walk_fields(ds, taglist, i + 1, tag, stack_values,
                                  Append(out_list, out))
                 ELSE out
            ELSE IF key \in DOMAIN ds /\ data_element.VR = "SQ"
            THEN LET r == walk_items(data_element.value.items, 1, tag,
                                     stack_values, out_list)
                 IN IF r.returned THEN r.out
                    ELSE walk_fields(ds, taglist, i + 1, tag, stack_values,
                                     r.out_list)
            ELSE walk_fields(ds, taglist, i + 1, tag, stack_values, out_list)

\* walk(dataset, walker_callback, _tag, stack_values)
walk(ds, tag, stack_values) ==
    walk_fields(ds, sorted(DOMAIN ds), 1, tag, stack_values, <<>>)

----------------------------------------------------------------------------
(* The walker's specification: one parsed tree, one target tag, and the    *)
(* two modes of walk called on it.                                         *)

Idle ==
    /\ ret = [fn |-> "none", value |-> None]
    /\ pc = "idle"
    /\ exists = FALSE
    /\ content = <<>>
    /\ buff = "closed"
    /\ temp = [bound |-> FALSE]
    /\ retval = None
    /\ warned = FALSE

Init ==
    /\ dataset \in Trees(Tags, MaxNodes)
    /\ _tag \in Tags
    /\ called = {}
    /\ out_first = None
    /\ out_all = None
    /\ Idle

WalkFirst ==
    /\ "first" \notin called
    /\ out_first' = walk(dataset, _tag, FALSE)
    /\ called' = called \cup {"first"}
    /\ UNCHANGED <<dataset, _tag, out_all, ret>>
    /\ UNCHANGED philipsVars

WalkCollect ==
    /\ "all" \notin called
    /\ out_all' = walk(dataset, _tag, TRUE)
    /\ called' = called \cup {"all"}
    /\ UNCHANGED <<dataset, _tag, out_first, ret>>
    /\ UNCHANGED philipsVars

Next == WalkFirst \/ WalkCollect

Spec == Init /\ [][Next]_vars

----------------------------------------------------------------------------
(* The field extractors.  Each reads the file into a dataset, calls walk   *)
(* with its own tag and post-processes what walk returned.  The tags they  *)
(* look for hold numbers (VR DS, IS) or text (CS), so an extractor is      *)
(* called only on a tree where walk does not hand it a whole sequence.     *)

\* below this a repetition time is taken to be in seconds
TRThreshold == 1000

Digits == <<"0", "1", "2", "3", "4", "5", "6", "7", "8", "9">>

\* the decimal digits of n >= 0
RECURSIVE IntToStr(_)
IntToStr(n) ==
    IF n < 10 THEN Digits[n + 1]
    ELSE IntToStr(n \div 10) \o Digits[(n % 10) + 1]

\* str(v) and "{0}".format(v) of a number: a float prints with its
\* fractional part
PyStr(v) ==
    CASE v.kind = "int" -> StrVal(IntToStr(v.num))
      [] v.kind = "float" -> StrVal(IntToStr(v.num) \o ".0")

\* int(v) of a number
PyInt(v) == IntVal(v.num)

NotASequence(v) == v.kind \in {"none", "int"}

\* lines 165-170 of get_repetition_time, on what walk returned
RepetitionTimeOf(tr) ==
    IF Truthy(tr)
    THEN IF tr.num < TRThreshold
         THEN PyStr(FloatVal(tr.num * 1000))
         ELSE PyStr(tr)
    ELSE None

get_repetition_time ==
    LET tr == walk(dataset, TagRepetitionTime, FALSE)
    IN /\ NotASequence(tr)
       /\ ret' = [fn |-> "get_repetition_time", value |-> RepetitionTimeOf(tr)]
       /\ _tag' = TagRepetitionTime
       /\ UNCHANGED <<dataset, called, out_first, out_all>>
       /\ UNCHANGED philipsVars

\* lines 310-316 of get_nb_slices, on the dataset read
NbSlicesOf(ds) ==
    LET value == walk(ds, TagNbSlices, FALSE)
    IN IF Truthy(value) THEN PyInt(value)
       ELSE LET value2 == walk(ds, TagNbSlicesPhilips, FALSE)
            IN IF Truthy(value2) THEN PyInt(value2) ELSE IntVal(0)

get_nb_slices ==
    /\ NotASequence(walk(dataset, TagNbSlices, FALSE))
    /\ NotASequence(walk(dataset, TagNbSlicesPhilips, FALSE))
    /\ ret' = [fn |-> "get_nb_slices", value |-> NbSlicesOf(dataset)]
    /\ _tag' = IF Truthy(walk(dataset, TagNbSlices, FALSE)) THEN TagNbSlices
               ELSE TagNbSlicesPhilips
    /\ UNCHANGED <<dataset, called, out_first, out_all>>
    /\ UNCHANGED philipsVars

\* lines 109-113 of get_phase_encoding, on what walk returned
PhaseEncodingOf(value) ==
    IF Truthy(value) THEN PyStr(value.items[1])
    ELSE IF value = ListVal(<<>>) THEN None
    ELSE value

get_phase_encoding ==
    LET value == walk(dataset, TagPhaseEncoding, TRUE)
    IN /\ \A i \in 1..Len(value.items) : NotASequence(value.items[i])
       /\ ret' = [fn |-> "get_phase_encoding", value |-> PhaseEncodingOf(value)]
       /\ _tag' = TagPhaseEncoding
       /\ UNCHANGED <<dataset, called, out_first, out_all>>
       /\ UNCHANGED philipsVars

InitExtract ==
    /\ dataset \in Trees(ExtractTags, MaxNodes - 1)
    /\ _tag = TagRepetitionTime
    /\ called = {}
    /\ out_first = None
    /\ out_all = None
    /\ Idle

NextExtract == get_repetition_time \/ get_nb_slices \/ get_phase_encoding

SpecExtract == InitExtract /\ [][NextExtract]_vars

----------------------------------------------------------------------------
(* get_number_of_slices_philips.  A string is a sequence of characters.    *)

\* the most lines a dump holds
MaxLines == 2

\* "StackNumberOfSlices"
Marker ==
    <<"S", "t", "a", "c", "k", "N", "u", "m", "b", "e", "r", "O", "f", "S",
      "l", "i", "c", "e", "s">>

\* a dump line of the marker with a two-digit count:
\*   (2001,102d) SS 24 # 2, 1 StackNumberOfSlices
LineSlices24 ==
    <<"(", "2", "0", "0", "1", ",", "1", "0", "2", "d", ")", " ", "S", "S",
      " ", "2", "4", " ", "#", " ", "2", ",", " ", "1", " ", "S", "t", "a",
      "c", "k", "N", "u", "m", "b", "e", "r", "O", "f", "S", "l", "i", "c",
      "e", "s">>

\* a dump line of the marker with a one-digit count:
\*   (2001,102d) SS 8 # 2, 1 StackNumberOfSlices
LineSlices8 ==
    <<"(", "2", "0", "0", "1", ",", "1", "0", "2", "d", ")", " ", "S", "S",
      " ", "8", " ", "#", " ", "2", ",", " ", "1", " ", "S", "t", "a", "c",
      "k", "N", "u", "m", "b", "e", "r", "O", "f", "S", "l", "i", "c", "e",
      "s">>

\* a dump line of another field:
\*   (0008,0060) CS [MR] # 4, 1 Modality
LineModality ==
    <<"(", "0", "0", "0", "8", ",", "0", "0", "6", "0", ")", " ", "C", "S",
      " ", "[", "M", "R", "]", " ", "#", " ", "4", ",", " ", "1", " ", "M",
      "o", "d", "a", "l", "i", "t", "y">>

\* a line holding the marker and no "#":
\*   StackNumberOfSlices
LineBare ==
    <<"S", "t", "a", "c", "k", "N", "u", "m", "b", "e", "r", "O", "f", "S",
      "l", "i", "c", "e", "s">>

DumpLines == {LineSlices24, LineSlices8, LineModality, LineBare}

RECURSIVE SeqsUpTo(_, _)
SeqsUpTo(S, n) ==
    IF n = 0 THEN {<<>>}
    ELSE SeqsUpTo(S, n - 1) \cup
         {Append(q, x) : q \in {r \in SeqsUpTo(S, n - 1) : Len(r) = n - 1}, x \in S}

\* what dcmdump can write: nothing when it is unavailable
DumpOutputs == SeqsUpTo(DumpLines, MaxLines)

\* sub in line
Contains(line, sub) ==
    \E i \in 1..(Len(line) - Len(sub) + 1) :
        SubSeq(line, i, i + Len(sub) - 1) = sub

\* line.replace(' ', '')
RemoveSpaces(line) == SelectSeq(line, LAMBDA c : c # " ")

\* line.split('#')[0]
BeforeHash(line) ==
    IF \E i \in 1..Len(line) : line[i] = "#"
    THEN SubSeq(line, 1, (CHOOSE i \in 1..Len(line) :
                             /\ line[i] = "#"
                             /\ \A k \in 1..(i - 1) : line[k] # "#") - 1)
    ELSE line

\* line[-2:]
LastTwo(line) == IF Len(line) <= 2 THEN line ELSE SubSeq(line, Len(line) - 1, Len(line))

IsDigit(c) == \E d \in 1..10 : Digits[d] = c
DigitOf(c) == (CHOOSE d \in 1..10 : Digits[d] = c) - 1

RECURSIVE DigitsValue(_)
DigitsValue(cs) ==
    IF cs = <<>> THEN 0
    ELSE 10 * DigitsValue(SubSeq(cs, 1, Len(cs) - 1)) + DigitOf(cs[Len(cs)])

\* int(cs): an optional sign and digits, a ValueError otherwise
ParseInt(cs) ==
    LET signed == cs # <<>> /\ cs[1] \in {"+", "-"}
        body == IF signed THEN Tail(cs) ELSE cs
    IN IF body # <<>> /\ \A i \in 1..Len(body) : IsDigit(body[i])
       THEN [ok |-> TRUE,
             num |-> IF signed /\ cs[1] = "-" THEN 0 - DigitsValue(body)
                     ELSE DigitsValue(body)]
       ELSE [ok |-> FALSE]

\* the loop of lines 516-519: the first line holding the marker, if any
RECURSIVE FirstMarkerLine(_, _)
FirstMarkerLine(lines, before) ==
    IF lines = <<>> THEN before
    ELSE IF Contains(Head(lines), Marker) THEN [bound |-> TRUE, line |-> Head(lines)]
    ELSE FirstMarkerLine(Tail(lines), before)

InitPhilips ==
    /\ dataset = <<>>
    /\ _tag = TagNbSlicesPhilips
    /\ called = {}
    /\ out_first = None
    /\ out_all = None
    /\ ret = [fn |-> "none", value |-> None]
    /\ pc = "system"
    /\ exists = FALSE
    /\ content = <<>>
    /\ buff = "closed"
    /\ temp = [bound |-> FALSE]
    /\ retval = None
    /\ warned = FALSE

\* line 512: the shell creates temp.txt and dcmdump writes into it (nothing
\* when dcmdump is unavailable), or the shell cannot create the file;
\* os.system reports neither
System ==
    /\ pc = "system"
    /\ \/ \E output \in DumpOutputs : exists' = TRUE /\ content' = output
       \/ UNCHANGED <<exists, content>>
    /\ pc' = "open"
    /\ UNCHANGED <<buff, temp, retval, warned>>
    /\ UNCHANGED <<walkVars, ret>>

\* line 515: open raises when the file is not there, and may raise when it
\* is (created unreadable under the process's umask, no descriptor left)
Open ==
    /\ pc = "open"
    /\ \/ exists /\ buff' = "open" /\ pc' = "read"
       \/ buff' = buff /\ pc' = "except"
    /\ UNCHANGED <<exists, content, temp, retval, warned>>
    /\ UNCHANGED <<walkVars, ret>>

\* lines 516-519: readlines and the search for the marker; reading may
\* raise
ReadLines ==
    /\ pc = "read"
    /\ \/ temp' = FirstMarkerLine(content, temp) /\ pc' = "close"
       \/ temp' = temp /\ pc' = "except"
    /\ UNCHANGED <<exists, content, buff, retval, warned>>
    /\ UNCHANGED <<walkVars, ret>>

\* line 520
Close ==
    /\ pc = "close"
    /\ buff' = "closed"
    /\ pc' = "remove"
    /\ UNCHANGED <<exists, content, temp, retval, warned>>
    /\ UNCHANGED <<walkVars, ret>>

\* line 522
Remove ==
    /\ pc = "remove"
    /\ exists' = FALSE
    /\ content' = <<>>
    /\ pc' = "parse"
    /\ UNCHANGED <<buff, temp, retval, warned>>
    /\ UNCHANGED <<walkVars, ret>>

\* lines 524-527: temp is unbound when no line held the marker
Parse ==
    /\ pc = "parse"
    /\ IF ~temp.bound THEN pc' = "except" /\ retval' = retval
       ELSE LET value == RemoveSpaces(temp.line)
                parsed == ParseInt(LastTwo(BeforeHash(value)))
            IN IF parsed.ok THEN pc' = "done" /\ retval' = IntVal(parsed.num)
               ELSE pc' = "except" /\ retval' = retval
    /\ UNCHANGED <<exists, content, buff, temp, warned>>
    /\ UNCHANGED <<walkVars, ret>>

\* lines 528-530
Except ==
    /\ pc = "except"
    /\ warned' = TRUE
    /\ retval' = IntVal(0)
    /\ pc' = "done"
    /\ UNCHANGED <<exists, content, buff, temp>>
    /\ UNCHANGED <<walkVars, ret>>

NextPhilips == System \/ Open \/ ReadLines \/ Close \/ Remove \/ Parse \/ Except

SpecPhilips == InitPhilips /\ [][NextPhilips]_vars

----------------------------------------------------------------------------
(* The fields of a tree, named by their place.  The path of a field is     *)
(* <<tag>> in the root dataset and <<tag, j>> \o p for the field of path p *)
(* in the j-th item of the root's sequence field tag.  Paths compare       *)
(* lexicographically: a field comes before the fields nested in it, the    *)
(* fields of a dataset come in ascending tag order and the items of a      *)
(* sequence in list order, which is the depth-first order.                 *)

RECURSIVE FieldPaths(_)
FieldPaths(ds) ==
    UNION {{<<t>>} \cup
           (IF ds[t].VR = "SQ"
            THEN UNION {{<<t, j>> \o p : p \in FieldPaths(ds[t].value.items[j])} :
                        j \in 1..Len(ds[t].value.items)}
            ELSE {}) : t \in DOMAIN ds}

RECURSIVE ElementAt(_, _)
ElementAt(ds, p) ==
    IF Len(p) = 1 THEN ds[p[1]]
    ELSE ElementAt(ds[p[1]].value.items[p[2]], SubSeq(p, 3, Len(p)))

ValueAt(ds, p) == ElementAt(ds, p).value
TagOf(p) == p[Len(p)]
Depth(p) == (Len(p) - 1) \div 2

\* p lies inside the items of a field carrying tag
NestedInMatch(p, tag) == \E k \in 1..(Len(p) - 1) : k % 2 = 1 /\ p[k] = tag

LexLess(p, q) ==
    \E i \in 1..Len(q) :
        /\ \A k \in 1..(i - 1) : k <= Len(p) /\ p[k] = q[k]
        /\ \/ i = Len(p) + 1
           \/ i <= Len(p) /\ p[i] < q[i]

FirstOf(paths) == CHOOSE p \in paths : \A q \in paths : q = p \/ LexLess(p, q)

RECURSIVE ValuesInOrder(_, _)
ValuesInOrder(ds, paths) ==
    IF paths = {} THEN <<>>
    ELSE LET p == FirstOf(paths)
         IN <<ValueAt(ds, p)>> \o ValuesInOrder(ds, paths \ {p})

\* every field carrying the tag, at any depth
Occurrences(ds, tag) == {p \in FieldPaths(ds) : TagOf(p) = tag}

\* the fields carrying the tag that are not nested inside another one
Matches(ds, tag) == {p \in Occurrences(ds, tag) : ~NestedInMatch(p, tag)}

\* the falsy values a field can hold: 0 and the empty sequence
Falsy(v) == v = IntVal(0) \/ v = SeqVal(<<>>)

\* those of them whose value is truthy
TruthyMatches(ds, tag) == {p \in Matches(ds, tag) : ~Falsy(ValueAt(ds, p))}

----------------------------------------------------------------------------
(* Claims about walk *)

\* C1: collect mode returns exactly one entry, the field's value, for each
\* field carrying the target tag that is not nested inside another such
\* field, in depth-first order; no matching field is omitted, whatever its
\* value.
C1_CollectEveryMatch ==
    "all" \in called =>
        out_all = ListVal(ValuesInOrder(dataset, Matches(dataset, _tag)))

\* C2: first-match mode returns the value of the first field carrying the
\* target tag in depth-first order, and None only when no field carries it.
C2_FirstMatchOfTraversal ==
    "first" \in called =>
        out_first = IF Matches(dataset, _tag) = {} THEN None
                    ELSE ValueAt(dataset, FirstOf(Matches(dataset, _tag)))

C4_NoMatch ==
    Occurrences(dataset, _tag) = {} =>
        /\ "first" \in called => out_first = None
        /\ "all" \in called => out_all = ListVal(<<>>)

\* both modes have returned on a tree without the target tag that holds a
\* sequence with no items, a dataset with no fields and a truthy leaf
C4_Witness ==
    /\ called = {"first", "all"}
    /\ Occurrences(dataset, _tag) = {}
    /\ out_first = None
    /\ out_all = ListVal(<<>>)
    /\ \E u, v \in DOMAIN dataset :
           /\ dataset[v].VR = "DS" /\ ~Falsy(dataset[v].value)
           /\ dataset[u].VR = "SQ" /\ Len(dataset[u].value.items) = 2
           /\ dataset[u].value.items[1] = <<>>
           /\ \E t \in DOMAIN dataset[u].value.items[2] :
                  dataset[u].value.items[2][t].value = SeqVal(<<>>)

\* C8: in collect mode a sequence field carrying the target tag is a
\* terminal match: it contributes its own value exactly once and nothing
\* from inside it (the leaves being taken as the code takes them).
C8_MatchingSequenceTerminal ==
    "all" \in called =>
        out_all = ListVal(ValuesInOrder(dataset,
                      {p \in Matches(dataset, _tag) :
                          \/ ElementAt(dataset, p).VR = "SQ"
                          \/ ~Falsy(ValueAt(dataset, p))}))

C10_ModesAgree ==
    called = {"first", "all"} =>
        /\ out_first = None <=> out_all = ListVal(<<>>)
        /\ out_first # None => out_first = out_all.items[1]

\* both modes have returned, collect with several different values
C10_Witness ==
    /\ called = {"first", "all"}
    /\ Len(out_all.items) >= 2
    /\ out_all.items[1] # out_all.items[2]
    /\ out_first = out_all.items[1]

----------------------------------------------------------------------------
(* Claims about the extractors *)

\* C5: get_repetition_time returns the string form of v * 1000 for a
\* present value v < 1000 and the string form of v for v >= 1000, for every
\* present value including 0, and None only when the tag is absent.
C5_RepetitionTimeOfPresentValue ==
    ret.fn = "get_repetition_time" =>
        IF Occurrences(dataset, TagRepetitionTime) = {} THEN ret.value = None
        ELSE LET v == ValueAt(dataset, FirstOf(Matches(dataset, TagRepetitionTime)))
             IN v.kind = "int" =>
                    ret.value = IF v.num < TRThreshold
                                THEN PyStr(FloatVal(v.num * 1000))
                                ELSE PyStr(v)

\* C6: get_nb_slices returns the integer of the primary tag's value
\* whenever the primary tag is present, that of the secondary tag's value
\* when only the secondary is present, and 0 when both are absent.
C6_SecondaryOnlyIfPrimaryAbsent ==
    ret.fn = "get_nb_slices" =>
        LET primary == Matches(dataset, TagNbSlices)
            secondary == Matches(dataset, TagNbSlicesPhilips)
        IN IF primary # {}
           THEN LET v == ValueAt(dataset, FirstOf(primary))
                IN v.kind = "int" => ret.value = PyInt(v)
           ELSE IF secondary # {}
           THEN LET v == ValueAt(dataset, FirstOf(secondary))
                IN v.kind = "int" => ret.value = PyInt(v)
           ELSE ret.value = IntVal(0)

----------------------------------------------------------------------------
(* Claims about get_number_of_slices_philips *)

\* C7: once the dump tool has been invoked, on every exit path temp.txt no
\* longer exists when the function returns, and on every failure path the
\* function returns 0.
C7_TempFileRemoved ==
    pc = "done" =>
        /\ ~exists
        /\ warned => retval = IntVal(0)

====
